---------------------------- MODULE Spec2Model ----------------------------
(***************************************************************************)
(* Model of the Cressi Goa driver (src/src/cressi_goa.c): packet framing,  *)
(* the chunked bulk download, identification / version resolution and the  *)
(* dive enumeration with its fingerprint based incremental sync.           *)
(*                                                                         *)
(* Bytes are naturals 0..255, buffers are sequences of bytes.  The byte    *)
(* stream is the record io = [rx, tx, wleft, log]: rx holds the bytes the  *)
(* device delivers, tx the writes the driver made (one element per write   *)
(* call), wleft the number of write calls that still succeed and log every *)
(* read and write that was tried, in order.                                *)
(***************************************************************************)
EXTENDS Integers, Sequences, FiniteSets, TLC

VARIABLES
    fingerprint, \* device->fingerprint
    pc,          \* position of the caller / of cressi_goa_device_foreach
    conf,        \* struct cressi_goa_irda_api_conf conf of foreach
    status,      \* dc_status_t returned by the running / last operation
    logbook,     \* contents of the logbook buffer
    count,       \* number of pending dives found by the scan
    idx,         \* loop counter i of the download loop
    offset,      \* current logbook offset of the download loop
    tx,          \* every write made on the stream, in order
    log,         \* every read and write tried on the stream, in order
    sunk,        \* calls of the dive callback: [data, fp, offset]
    progress,    \* dc_event_progress_t progress of foreach
    events,      \* emitted progress events
    hist,        \* history of the running enumeration (for the properties)
    rcv,         \* state of the framed-receive harness
    dl,          \* state of the bulk-download harness
    idr,         \* state of the identification harness
    snd,         \* state of the framed-send harness
    stp          \* state of the progress-step harness

vars == <<fingerprint, pc, conf, status, logbook, count, idx, offset, tx,
          log, sunk, progress, events, hist, rcv, dl, idr, snd, stp>>

---------------------------------------------------------------------------
(* Program constants                                                       *)

CMD_VERSION == 0
CMD_SET_TIME == 19
CMD_EXIT_PCLINK == 29
CMD_LOGBOOK == 33
CMD_DIVE == 34
CMD_LOGBOOK_V4 == 35
HEADER == 170
TRAILER == 85
END == 4
ACK == 6
SZ_DATA == 512
SZ_PACKET == 12
SZ_HEADER == 23
FP_OFFSET == 17
FP_SIZE == 6
NSTEPS == 1000

Byte == 0..255

---------------------------------------------------------------------------
(* Integer and buffer primitives                                           *)

RECURSIVE Xor(_, _)
\* bitwise exclusive or of two naturals
Xor(a, b) ==
    IF a = 0 THEN b
    ELSE IF b = 0 THEN a
    ELSE (((a % 2) + (b % 2)) % 2) + 2 * Xor(a \div 2, b \div 2)

RECURSIVE CrcShift(_, _)
\* n shift-and-reduce steps of the CCITT polynomial 0x1021 on a 16 bit value
CrcShift(c, n) ==
    IF n = 0 THEN c
    ELSE CrcShift(IF c >= 32768 THEN Xor((c * 2) % 65536, 4129)
                                ELSE c * 2, n - 1)

\* the 256 entry lookup table of the byte-wise CRC
CrcTable == [i \in Byte |-> CrcShift(i * 256, 8)]

\* exclusive or of two bytes, tabulated
XorTable == [a \in Byte |-> [b \in Byte |-> Xor(a, b)]]

\* the remainder after one more byte: (crc << 8) ^ table[(crc >> 8) ^ byte]
CrcByte(crc, byte) ==
    LET t == CrcTable[XorTable[crc \div 256][byte]]
    IN XorTable[crc % 256][t \div 256] * 256 + (t % 256)

\* eight steps of the CRC over data[lo..lo + 7]
Crc8(data, lo, c) ==
    CrcByte(CrcByte(CrcByte(CrcByte(CrcByte(CrcByte(CrcByte(CrcByte(c,
        data[lo]), data[lo + 1]), data[lo + 2]), data[lo + 3]),
        data[lo + 4]), data[lo + 5]), data[lo + 6]), data[lo + 7])

RECURSIVE CrcRange(_, _, _, _)
\* CRC over data[lo..hi] continuing from the remainder crc.  The range is
\* split (at a multiple of eight bytes when it is longer than eight) and the
\* left part is computed first (the test left >= 0 always holds), so that
\* the evaluation nests no deeper than log2 of the length
CrcRange(data, lo, hi, crc) ==
    IF lo > hi THEN crc
    ELSE IF lo = hi THEN CrcByte(crc, data[lo])
    ELSE IF hi - lo = 7 THEN Crc8(data, lo, crc)
    ELSE LET mid == IF hi - lo > 7
                    THEN lo + 8 * (((hi - lo + 1) \div 8 + 1) \div 2) - 1
                    ELSE (lo + hi) \div 2
             left == CrcRange(data, lo, mid, crc)
         IN IF left >= 0 THEN CrcRange(data, mid + 1, hi, left) ELSE 0

\* checksum_crc16_ccitt (data, size, 0x0000, 0x0000)
checksum_crc16_ccitt(data) == CrcRange(data, 1, Len(data), 0)

\* array_uint16_le (data + off), off counted from 0
array_uint16_le(data, off) == data[off + 1] + 256 * data[off + 2]

\* the n bytes data[off .. off+n-1], off counted from 0
Slice(data, off, n) == SubSeq(data, off + 1, off + n)

\* the bytes after the first n
Drop(data, n) == SubSeq(data, n + 1, Len(data))

---------------------------------------------------------------------------
(* The byte stream                                                         *)

\* an entry of the log: a read ("r") or write ("w") of n bytes, the bytes
\* that went over the stream, and whether the call succeeded
LogEntry(op, n, data, ok) == [op |-> op, n |-> n, data |-> data, ok |-> ok]

\* dc_iostream_read (iostream, buf, n, NULL): all n bytes or an error
IoRead(io, n) ==
    IF Len(io.rx) >= n
    THEN [ok |-> TRUE, data |-> SubSeq(io.rx, 1, n),
          io |-> [io EXCEPT !.rx = Drop(io.rx, n),
                            !.log = Append(io.log,
                                LogEntry("r", n, SubSeq(io.rx, 1, n), TRUE))]]
    ELSE [ok |-> FALSE, data |-> <<>>,
          io |-> [io EXCEPT !.rx = <<>>,
                            !.log = Append(io.log,
                                           LogEntry("r", n, <<>>, FALSE))]]

\* dc_iostream_write (iostream, buf, n, NULL)
IoWrite(io, bytes) ==
    IF io.wleft > 0
    THEN [ok |-> TRUE,
          io |-> [io EXCEPT !.tx = Append(io.tx, bytes),
                            !.wleft = io.wleft - 1,
                            !.log = Append(io.log,
                                LogEntry("w", Len(bytes), bytes, TRUE))]]
    ELSE [ok |-> FALSE,
          io |-> [io EXCEPT !.wleft = 0,
                            !.log = Append(io.log,
                                LogEntry("w", Len(bytes), <<>>, FALSE))]]

---------------------------------------------------------------------------
(* Framing layer                                                           *)

\* the bytes after the three header bytes: size, cmd, payload
PacketBody(cmd, data) == <<Len(data), cmd>> \o data

\* the packet with its checksum (low byte first) and trailer appended
PacketWith(body, crc) ==
    <<HEADER, HEADER, HEADER>> \o body \o <<crc % 256, crc \div 256, TRAILER>>

\* the packet cressi_goa_device_send builds for (cmd, data)
Packet(cmd, data) ==
    PacketWith(PacketBody(cmd, data),
               checksum_crc16_ccitt(PacketBody(cmd, data)))

\* the result of the write of cressi_goa_device_send
SendDone(w) == [status |-> IF w.ok THEN "SUCCESS" ELSE "IO", io |-> w.io]

\* a send that writes whatever the size of the payload
SendAnySize(io, cmd, data) == SendDone(IoWrite(io, Packet(cmd, data)))

\* cressi_goa_device_send
Send(io, cmd, data) ==
    IF Len(data) > SZ_PACKET
    THEN [status |-> "INVALIDARGS", io |-> io]
    ELSE SendDone(IoWrite(io, Packet(cmd, data)))

\* a receive that returns status st with an empty output
RecvFail(st, io) == [status |-> st, io |-> io, output |-> <<>>]

\* the trailer test alone: the checksum is not compared
ReceiveCheckNoCrc(length, packet, io) ==
    IF packet[length + 8] # TRAILER THEN RecvFail("PROTOCOL", io)
    ELSE [status |-> "SUCCESS", io |-> io, output |-> Slice(packet, 5, length)]

\* cressi_goa_device_receive, from "Verify the trailer of the packet"
ReceiveCheck(length, packet, io) ==
    IF packet[length + 8] # TRAILER THEN RecvFail("PROTOCOL", io)
    ELSE IF array_uint16_le(packet, length + 5)
            # checksum_crc16_ccitt(Slice(packet, 3, length + 2))
    THEN RecvFail("PROTOCOL", io)
    ELSE [status |-> "SUCCESS", io |-> io, output |-> Slice(packet, 5, length)]

\* cressi_goa_device_receive, after "Read the remainder of the data packet":
\* r is the result of that read, head the four bytes read before
ReceiveRest(length, head, r) ==
    IF ~r.ok THEN RecvFail("IO", r.io)
    ELSE ReceiveCheck(length, head \o r.data, r.io)

\* cressi_goa_device_receive, after "Read the header of the data packet":
\* h is the result of that read
ReceiveHeader(h) ==
    IF ~h.ok THEN RecvFail("IO", h.io)
    ELSE IF h.data[1] # HEADER \/ h.data[2] # HEADER \/ h.data[3] # HEADER
    THEN RecvFail("PROTOCOL", h.io)
    ELSE IF h.data[4] > SZ_PACKET THEN RecvFail("PROTOCOL", h.io)
    ELSE ReceiveRest(h.data[4], h.data, IoRead(h.io, h.data[4] + 4))

\* cressi_goa_device_receive
Receive(io) == ReceiveHeader(IoRead(io, 4))

---------------------------------------------------------------------------
(* Bulk transfer                                                           *)

\* a step rounded to the nearest integer
StepRounded(i, n) == (2 * NSTEPS * i + n) \div (2 * n)

\* STEP(i,n) = NSTEPS * (i) / (n); the operands are unsigned int and stay
\* far below 2^31 here (i <= n <= 65537), so no value wraps
STEP(i, n) == (NSTEPS * i) \div n

\* the locals of cressi_goa_device_download before its loop
DlInit(io, prog) ==
    [phase |-> "loop", status |-> "SUCCESS", io |-> io,
     skip |-> 2, size |-> 2, nbytes |-> 0, buffer |-> <<>>,
     initial |-> prog.current, progress |-> prog, emitted |-> <<>>,
     chunks |-> 0]

\* download returns status s
DlFail(st, s, io) == [st EXCEPT !.phase = "ret", !.status = s, !.io = io]

\* "Update and emit a progress event" with the new current value
DlEmit(st, prog) ==
    [st EXCEPT !.progress = prog, !.emitted = Append(st.emitted, prog)]

\* an append that keeps skipping two bytes on every packet
DlAppendKeepSkip(st, packet, size, length) ==
    DlEmit([st EXCEPT !.size = size,
                      !.buffer = st.buffer \o Slice(packet, 3 + st.skip,
                                                    length - st.skip),
                      !.nbytes = st.nbytes + length,
                      !.chunks = st.chunks + 1],
           [st.progress EXCEPT
               !.current = st.initial + STEP(st.nbytes + length, size)])

\* the loop body from "Append the payload to the output buffer" on:
\* length is the payload size of the packet
DlAppend(st, packet, size, length) ==
    DlEmit([st EXCEPT !.size = size,
                      !.buffer = st.buffer \o Slice(packet, 3 + st.skip,
                                                    length - st.skip),
                      !.nbytes = st.nbytes + length,
                      !.skip = 0,
                      !.chunks = st.chunks + 1],
           [st.progress EXCEPT
               !.current = st.initial + STEP(st.nbytes + length, size)])

\* length after "Calculate the payload size of the packet"
ChunkLength(size, nbytes) ==
    IF size - nbytes > SZ_DATA THEN SZ_DATA ELSE size - nbytes

\* a total size that is read again from every packet
TotalSizeReread(size, nbytes, packet) == 2 + array_uint16_le(packet, 3)

\* size after "Get the total size from the first data packet"
TotalSize(size, nbytes, packet) ==
    IF nbytes = 0 THEN size + array_uint16_le(packet, 3) ELSE size

\* "Calculate the payload size of the packet"
DlLength(st, packet, size) ==
    DlAppend(st, packet, size, ChunkLength(size, st.nbytes))

\* "Get the total size from the first data packet"
DlSize(st, packet) ==
    DlLength(st, packet, TotalSize(st.size, st.nbytes, packet))

\* the loop body after "Send the ack byte to the device": w is that write
DlAcked(st, packet, w) ==
    IF ~w.ok THEN DlFail(st, "IO", w.io)
    ELSE DlSize([st EXCEPT !.io = w.io], packet)

\* a loop body that acknowledges the chunk whatever its checksum
DlPacketUnchecked(st, r) ==
    IF ~r.ok THEN DlFail(st, "IO", r.io)
    ELSE DlAcked(st, r.data, IoWrite(r.io, <<ACK>>))

\* the loop body after "Read the data packet": r is that read
DlPacket(st, r) ==
    IF ~r.ok THEN DlFail(st, "IO", r.io)
    ELSE IF array_uint16_le(r.data, 3 + SZ_DATA)
            # checksum_crc16_ccitt(Slice(r.data, 3, SZ_DATA))
    THEN DlFail(st, "PROTOCOL", r.io)
    ELSE DlAcked(st, r.data, IoWrite(r.io, <<ACK>>))

\* one iteration of the receive loop of cressi_goa_device_download
DlChunk(st) == DlPacket(st, IoRead(st.io, 3 + SZ_DATA + 2))

\* after the final "Send the ack byte to the device": w is that write
DlEndAcked(st, w) == DlFail(st, IF w.ok THEN "SUCCESS" ELSE "IO", w.io)

\* an end handshake that acknowledges whatever byte it read
DlEndByteUnchecked(st, r) ==
    IF ~r.ok THEN DlFail(st, "IO", r.io)
    ELSE DlEndAcked(st, IoWrite(r.io, <<ACK>>))

\* after "Read the end byte": r is that read
DlEndByte(st, r) ==
    IF ~r.ok THEN DlFail(st, "IO", r.io)
    ELSE IF r.data[1] # END THEN DlFail(st, "PROTOCOL", r.io)
    ELSE DlEndAcked(st, IoWrite(r.io, <<ACK>>))

\* the end byte handshake of cressi_goa_device_download
DlEnd(st) == DlEndByte(st, IoRead(st.io, 1))

\* one step of cressi_goa_device_download: the loop test, then body or exit
DlStep(st) == IF st.nbytes < st.size THEN DlChunk(st) ELSE DlEnd(st)

RECURSIVE DlRun(_)
\* the steps of cressi_goa_device_download up to its return
DlRun(st) == IF st.phase = "ret" THEN st ELSE DlRun(DlStep(st))

\* cressi_goa_device_download (device, buffer, progress)
Download(io, prog) == DlRun(DlInit(io, prog))

\* what a transfer returns: nothing downloaded
TransferPlain(st, io, output, prog) ==
    [status |-> st, io |-> io, output |-> output, buffer |-> <<>>,
     progress |-> prog, emitted |-> <<>>]

\* what a transfer returns after the download d
TransferBulk(output, d) ==
    [status |-> d.status, io |-> d.io, output |-> output,
     buffer |-> d.buffer, progress |-> d.progress, emitted |-> d.emitted]

\* cressi_goa_device_transfer after the answer r was received
TransferAnswer(r, bulk, prog) ==
    IF r.status # "SUCCESS" THEN TransferPlain(r.status, r.io, <<>>, prog)
    ELSE IF ~bulk THEN TransferPlain("SUCCESS", r.io, r.output, prog)
    ELSE TransferBulk(r.output, Download(r.io, prog))

\* cressi_goa_device_transfer after the command was sent with result s
TransferSent(s, bulk, prog) ==
    IF s.status # "SUCCESS" THEN TransferPlain(s.status, s.io, <<>>, prog)
    ELSE TransferAnswer(Receive(s.io), bulk, prog)

\* cressi_goa_device_transfer; bulk tells whether a buffer is passed
Transfer(io, cmd, input, bulk, prog) ==
    TransferSent(Send(io, cmd, input), bulk, prog)

---------------------------------------------------------------------------
(* What the dive computer puts on the wire                                 *)

\* n bytes of padding
Pad(n) == [i \in 1..n |-> 0]

\* one bulk chunk: three leading bytes, the data, the checksum
ChunkWith(data, crc) == <<0, 0, 0>> \o data \o <<crc % 256, crc \div 256>>

\* one bulk chunk around the 512 data bytes
Chunk(data) == ChunkWith(data, checksum_crc16_ccitt(data))

RECURSIVE ChunksOf(_)
\* the chunks carrying a byte string (size prefix included), last one padded
ChunksOf(bytes) ==
    IF Len(bytes) = 0 THEN <<>>
    ELSE IF Len(bytes) <= SZ_DATA
    THEN Chunk(bytes \o Pad(SZ_DATA - Len(bytes)))
    ELSE Chunk(SubSeq(bytes, 1, SZ_DATA)) \o ChunksOf(Drop(bytes, SZ_DATA))

\* a complete bulk answer carrying payload: size prefix, chunks, end byte
Bulk(payload) ==
    ChunksOf(<<Len(payload) % 256, Len(payload) \div 256>> \o payload)
    \o <<END>>

---------------------------------------------------------------------------
(* Identification and version resolution                                   *)

\* const bool version_support_on_model[5][11], indexed [version][model - 1]
version_support_on_model ==
    LET T == TRUE
        F == FALSE
    IN [v \in 0..4 |->
         CASE v = 0 -> <<T, T, F, F, F, F, F, F, F, F, F>>
           [] v = 1 -> <<T, T, F, F, F, F, F, F, F, F, F>>
           [] v = 2 -> <<T, T, F, F, F, F, F, F, T, F, F>>
           [] v = 3 -> <<T, T, T, T, T, T, T, T, T, T, T>>
           [] v = 4 -> <<T, T, F, T, T, F, F, F, T, T, F>>]

\* the firmware ranges of cressi_goa_irda_api_version; -1 when unknown
FirmwareVersion(firmware) ==
    IF firmware >= 161 /\ firmware <= 165 THEN 0
    ELSE IF firmware >= 166 /\ firmware <= 169 THEN 1
    ELSE IF firmware >= 170 /\ firmware <= 179 THEN 2
    ELSE IF (firmware >= 100 /\ firmware <= 110) \/ firmware = 900 THEN 3
    ELSE IF firmware >= 200 /\ firmware <= 205 THEN 4
    ELSE -1

\* the values the read version_support_on_model[version][index] can yield:
\* the table entry, or anything when the index lies outside the row
SupportLookup(version, index) ==
    IF index >= 0 /\ index <= 10
    THEN {version_support_on_model[version][index + 1]}
    ELSE {TRUE, FALSE}

\* the [version][index] pairs cressi_goa_irda_api_version reads from
\* version_support_on_model for a model and a firmware number
MatrixReads(model, firmware) ==
    IF model > 11 THEN {}
    ELSE IF FirmwareVersion(firmware) = -1 THEN {}
    ELSE {<<FirmwareVersion(firmware), model - 1>>}

\* cressi_goa_irda_api_version: the set of values the call can return
cressi_goa_irda_api_version(model, firmware) ==
    IF model > 11 THEN {-1}
    ELSE LET version == FirmwareVersion(firmware)
         IN IF version = -1 THEN {-1}
            ELSE {IF ok THEN version ELSE -1 :
                      ok \in SupportLookup(version, model - 1)}

\* static const struct cressi_goa_irda_api_conf version_conf[]
version_conf ==
    << [version |-> 0, idlen |-> 9, logbook_entry_len |-> SZ_HEADER,
        logbook_fp_offset |-> FP_OFFSET, cmd_logbook |-> CMD_LOGBOOK],
       [version |-> 4, idlen |-> 11, logbook_entry_len |-> 15,
        logbook_fp_offset |-> 3, cmd_logbook |-> CMD_LOGBOOK_V4] >>

\* the configuration candidate loop of cressi_goa_read_id: index of the first
\* row whose idlen equals the answer size, 0 for none (conf_ == NULL)
ConfCandidate(size) ==
    IF size = version_conf[1].idlen THEN 1
    ELSE IF size = version_conf[2].idlen THEN 2
    ELSE 0

\* an outcome of cressi_goa_read_id: status, stream, *conf, the id buffer
IdOutcome(st, io, cf, id) == [status |-> st, io |-> io, conf |-> cf, id |-> id]

\* cressi_goa_read_id from "Emit a device info event" on: the outcomes for
\* the candidate row cand
ReadIdVersion(io, cin, id, cand) ==
    {IF version = -1
     THEN IdOutcome("UNSUPPORTED", io, cin, id)
     ELSE IdOutcome("SUCCESS", io,
                    [version_conf[cand] EXCEPT !.version = version], id) :
     version \in cressi_goa_irda_api_version(id[5], array_uint16_le(id, 5))}

\* cressi_goa_read_id after the candidate loop: status is still
\* DC_STATUS_SUCCESS when no row matched and the code jumps to error_exit
ReadIdCandidate(io, cin, id, cand) ==
    IF cand = 0 THEN {IdOutcome("SUCCESS", io, cin, id)}
    ELSE ReadIdVersion(io, cin, id, cand)

\* cressi_goa_read_id after the transfer t of the version command
ReadIdAnswer(t, cin) ==
    IF t.status # "SUCCESS" THEN {IdOutcome(t.status, t.io, cin, t.output)}
    ELSE ReadIdCandidate(t.io, cin, t.output, ConfCandidate(Len(t.output)))

\* cressi_goa_read_id (abstract, emit_events, conf): the set of outcomes;
\* cin is what *conf holds before the call
cressi_goa_read_id(io, cin) ==
    ReadIdAnswer(Transfer(io, CMD_VERSION, <<>>, FALSE,
                          [current |-> 0, maximum |-> 0]), cin)

\* the answer payload of the device to the version query
IdPayload(len, model, firmware) ==
    SubSeq(<<1, 2, 3, 4, model, firmware % 256, firmware \div 256,
             0, 0, 0, 0, 0>>, 1, len)

---------------------------------------------------------------------------
(* Dive enumeration: the pure parts of cressi_goa_device_foreach           *)

RECURSIVE ScanFromNoFp(_, _, _, _, _)
\* the counting loop without the fingerprint comparison
ScanFromNoFp(data, cf, fp, off, cnt) ==
    IF ~(off > cf.logbook_entry_len) THEN cnt
    ELSE LET o == off - cf.logbook_entry_len
             number == array_uint16_le(data, o)
         IN IF number = 0 THEN cnt
            ELSE ScanFromNoFp(data, cf, fp, o, cnt + 1)

RECURSIVE ScanFromNoZero(_, _, _, _, _)
\* a counting loop that does not look at the dive number
ScanFromNoZero(data, cf, fp, off, cnt) ==
    IF ~(off > cf.logbook_entry_len) THEN cnt
    ELSE LET o == off - cf.logbook_entry_len
         IN IF Slice(data, o + cf.logbook_fp_offset, FP_SIZE) = fp
            THEN cnt
            ELSE ScanFromNoZero(data, cf, fp, o, cnt + 1)

RECURSIVE ScanFrom(_, _, _, _, _)
\* the counting loop: walks back from offset, returns the final count
ScanFrom(data, cf, fp, off, cnt) ==
    IF ~(off > cf.logbook_entry_len) THEN cnt
    ELSE LET o == off - cf.logbook_entry_len
             number == array_uint16_le(data, o)
         IN IF number = 0 THEN cnt
            ELSE IF Slice(data, o + cf.logbook_fp_offset, FP_SIZE) = fp
            THEN cnt
            ELSE ScanFrom(data, cf, fp, o, cnt + 1)

RECURSIVE ScanOffsets(_, _, _, _)
\* the entry offsets the counting loop moves to, walking back from off
ScanOffsets(data, cf, fp, off) ==
    IF ~(off > cf.logbook_entry_len) THEN {}
    ELSE LET o == off - cf.logbook_entry_len
         IN IF array_uint16_le(data, o) = 0 THEN {o}
            ELSE IF Slice(data, o + cf.logbook_fp_offset, FP_SIZE) = fp
            THEN {o}
            ELSE {o} \cup ScanOffsets(data, cf, fp, o)

\* "Count the number of dives"
Scan(data, cf, fp) == ScanFrom(data, cf, fp, Len(data), 0)

\* memcmp (a + aoff, b + boff, n) == 0: the set of results it can yield.
\* Bytes inside both buffers are compared; when they agree and the range
\* runs past the size of a buffer the result rests on bytes that were never
\* written and can be either
MemEq(a, aoff, b, boff, n) ==
    LET inside == {i \in 0..(n - 1) : aoff + i < Len(a) /\ boff + i < Len(b)}
    IN IF \E i \in inside : a[aoff + i + 1] # b[boff + i + 1] THEN {FALSE}
       ELSE IF inside = 0..(n - 1) THEN {TRUE}
       ELSE {TRUE, FALSE}

\* a header check that looks at the dive number alone
HeaderOkNumberOnly(cf, data, off, dive) ==
    IF cf.version # 4
    THEN IF Len(dive) < SZ_HEADER - 5 THEN {FALSE}
         ELSE MemEq(dive, 0, data, off + 0, 2)
    ELSE MemEq(dive, 0, data, off, 2)

\* the header cross-validation of a downloaded dive: the set of verdicts
\* (TRUE: accepted, FALSE: DC_STATUS_DATAFORMAT)
HeaderOk(cf, data, off, dive) ==
    IF cf.version # 4
    THEN IF Len(dive) < SZ_HEADER - 5 THEN {FALSE}
         ELSE {a /\ b : a \in MemEq(dive, 0, data, off + 0, 2),
                        b \in MemEq(dive, 2, data, off + 7, SZ_HEADER - 7)}
    ELSE {a /\ b : a \in MemEq(dive, 0, data, off, 2),
                   b \in MemEq(dive, 4, data, off + 3, 6)}

\* the indices (from 0) of the dive bytes the header cross-validation
\* compares or reads: a later comparison is made when the one before it
\* found no difference
HeaderDiveReads(cf, data, off, dive) ==
    IF cf.version # 4
    THEN IF Len(dive) < SZ_HEADER - 5 THEN {}
         ELSE (0..1) \cup (IF TRUE \in MemEq(dive, 0, data, off + 0, 2)
                           THEN 2..(SZ_HEADER - 6) ELSE {})
    ELSE (0..1)
         \cup (IF TRUE \in MemEq(dive, 0, data, off, 2)
               THEN (4..9) \cup (IF TRUE \in MemEq(dive, 4, data, off + 3, 6)
                                 THEN {14} ELSE {})
               ELSE {})

\* the indices (from 0) of the logbook bytes the header cross-validation
\* compares
HeaderEntryReads(cf, data, off, dive) ==
    IF cf.version # 4
    THEN IF Len(dive) < SZ_HEADER - 5 THEN {}
         ELSE (off..(off + 1))
              \cup (IF TRUE \in MemEq(dive, 0, data, off + 0, 2)
                    THEN (off + 7)..(off + SZ_HEADER - 1) ELSE {})
    ELSE (off..(off + 1))
         \cup (IF TRUE \in MemEq(dive, 0, data, off, 2)
               THEN (off + 3)..(off + 8) ELSE {})

\* a record in which the dive comes before the logbook entry
RecordDiveFirst(cf, data, off, dive) ==
    <<220, 220, cf.version, cf.logbook_entry_len>>
    \o dive \o Slice(data, off, cf.logbook_entry_len)

\* the record handed to the callback: injected header, logbook entry, dive
Record(cf, data, off, dive) ==
    <<220, 220, cf.version, cf.logbook_entry_len>>
    \o Slice(data, off, cf.logbook_entry_len) \o dive

\* a fingerprint pointer that does not skip the injected header
RecordFpNoHeader(cf, record) == Slice(record, cf.logbook_fp_offset, FP_SIZE)

\* the fingerprint pointer passed with it: dive_data + 4 + logbook_fp_offset
RecordFp(cf, record) == Slice(record, 4 + cf.logbook_fp_offset, FP_SIZE)

\* a set_fingerprint that copies the bytes it is given whatever their number
SetFpAnySize(old, data, size) ==
    IF size # 0
    THEN [status |-> "SUCCESS",
          fingerprint |-> data \o SubSeq(old, size + 1, FP_SIZE)]
    ELSE [status |-> "SUCCESS", fingerprint |-> <<0, 0, 0, 0, 0, 0>>]

\* cressi_goa_device_set_fingerprint: [status, fingerprint]
SetFp(old, data, size) ==
    IF size # 0 /\ size # FP_SIZE
    THEN [status |-> "INVALIDARGS", fingerprint |-> old]
    ELSE IF size # 0
    THEN [status |-> "SUCCESS", fingerprint |-> SubSeq(data, 1, FP_SIZE)]
    ELSE [status |-> "SUCCESS", fingerprint |-> <<0, 0, 0, 0, 0, 0>>]

---------------------------------------------------------------------------
(* Bounds of the model and the inputs drawn within them                    *)

\* largest number of entries in a logbook table
MaxEntries == 2
\* a write budget no operation of the model exhausts
NoWriteFailure == 64
\* EVENT_PROGRESS_INITIALIZER's maximum (UINT_MAX), as large as TLC counts
UINT_MAX == 2147483647

FpZero == <<0, 0, 0, 0, 0, 0>>
FpA == <<10, 11, 12, 13, 14, 15>>
FpB == <<10, 11, 12, 13, 14, 99>>

\* the kinds of logbook entry the device holds: dive number and fingerprint
EntryKinds ==
    << [num |-> 1, fp |-> FpA], [num |-> 2, fp |-> FpB],
       [num |-> 0, fp |-> FpB], [num |-> 256, fp |-> FpZero] >>

\* a logbook entry laid out for configuration cf
Entry(cf, kind) ==
    [i \in 1..cf.logbook_entry_len |->
        LET j == i - 1
        IN IF j = 0 THEN kind.num % 256
           ELSE IF j = 1 THEN kind.num \div 256
           ELSE IF j >= cf.logbook_fp_offset
                   /\ j < cf.logbook_fp_offset + FP_SIZE
           THEN kind.fp[j - cf.logbook_fp_offset + 1]
           ELSE 64 + j]

RECURSIVE Entries(_, _)
\* the entries of kinds ks[1], ks[2], ... one after the other
Entries(cf, ks) ==
    IF Len(ks) = 0 THEN <<>>
    ELSE Entry(cf, EntryKinds[ks[1]]) \o Entries(cf, Tail(ks))

\* every sequence of at most MaxEntries entry kinds
KindSeqs == UNION {[1..n -> 1..Len(EntryKinds)] : n \in 0..MaxEntries}

\* the logbook tables: lead bytes that belong to no entry, then the entries
Logbooks(cf) ==
    {[i \in 1..lead |-> 255] \o Entries(cf, ks) :
         lead \in {0, 1}, ks \in KindSeqs}

\* what conf can hold before cressi_goa_read_id fills it: the struct is a
\* local of foreach that is not initialised
UninitConfs ==
    { [version_conf[1] EXCEPT !.version = 3],
      [version |-> 7, idlen |-> 0, logbook_entry_len |-> 15,
       logbook_fp_offset |-> 3, cmd_logbook |-> CMD_VERSION] }

\* the (answer size, model, firmware) triples the device reports in the
\* enumeration runs
IdAnswers ==
    {<<9, 1, 163>>, <<9, 3, 163>>, <<11, 9, 202>>, <<11, 1, 163>>}

\* the exchanges the device can offer for the version query
IdScenarios ==
    {[rx |-> Packet(CMD_VERSION, IdPayload(a[1], a[2], a[3])),
      wleft |-> NoWriteFailure] : a \in IdAnswers}
    \cup {[rx |-> Packet(CMD_VERSION, IdPayload(len, 1, 163)),
           wleft |-> NoWriteFailure] : len \in {0, 5}}
    \cup {[rx |-> <<>>, wleft |-> NoWriteFailure],
          [rx |-> Packet(CMD_VERSION, IdPayload(9, 1, 163)), wleft |-> 0],
          [rx |-> <<HEADER, HEADER, 0, 0>>, wleft |-> NoWriteFailure]}

\* the exchanges the device can offer for the logbook command
LogbookScenarios(cf) ==
    {[rx |-> Packet(cf.cmd_logbook, <<>>) \o Bulk(lb),
      wleft |-> NoWriteFailure] : lb \in Logbooks(cf)}
    \cup {[rx |-> Packet(cf.cmd_logbook, <<>>), wleft |-> NoWriteFailure],
          [rx |-> Packet(cf.cmd_logbook, <<>>) \o Bulk(<<>>), wleft |-> 1],
          [rx |-> Packet(cf.cmd_logbook, <<>>) \o ChunksOf(<<0, 0>>) \o <<0>>,
           wleft |-> NoWriteFailure]}

\* a byte of data, 0 where data has none
ByteAt(data, i) == IF i < Len(data) THEN data[i + 1] ELSE 0

\* a dive whose header agrees with the entry at off under the rule for
\* versions 0..3: dive number, then the 16 bytes after the 5 extra ones
LegacyDive(data, off) ==
    Slice(data, off, 2) \o [i \in 1..16 |-> ByteAt(data, off + 6 + i)]
    \o <<7, 8, 9>>

\* a dive whose header agrees with the entry at off under the rule for
\* version 4: dive number, sample count, start date, rest of the header
NewDive(data, off) ==
    Slice(data, off, 2) \o <<3, 0>> \o Slice(data, off + 3, 6)
    \o <<1, 1, 0, 0, 1, 0, 7, 8>>

\* data with the byte at index i (from 0) changed
Flip(data, i) == [data EXCEPT ![i + 1] = (data[i + 1] + 1) % 256]

\* the dive payloads the device can answer with for the entry at off
DivePayloads(cf, data, off) ==
    LET good == IF cf.version # 4 THEN LegacyDive(data, off)
                                  ELSE NewDive(data, off)
        last == IF cf.version # 4 THEN 17 ELSE 9
    IN {good, Flip(good, 1), Flip(good, last), SubSeq(good, 1, last), <<>>}

\* the bulk transfer of a dive the device has nothing to say about
EmptyBulk == Bulk(<<>>)

\* the exchanges the device can offer for one dive command
DiveScenarios(cf, data, off) ==
    {[rx |-> Packet(CMD_DIVE, <<>>) \o Bulk(p), wleft |-> NoWriteFailure] :
         p \in DivePayloads(cf, data, off)}
    \cup {[rx |-> <<>>, wleft |-> NoWriteFailure],
          [rx |-> Packet(CMD_DIVE, <<>>) \o EmptyBulk, wleft |-> 2],
          [rx |-> Packet(CMD_DIVE, <<>>) \o Flip(EmptyBulk, 3),
           wleft |-> NoWriteFailure]}

---------------------------------------------------------------------------
(* The driver instance and its caller                                      *)

NoConf ==
    [version |-> 0, idlen |-> 0, logbook_entry_len |-> 0,
     logbook_fp_offset |-> 0, cmd_logbook |-> 0]

NoProgress == [current |-> 0, maximum |-> 0]

NoHist ==
    [op |-> "none", size |-> 0, answered |-> FALSE, idlen |-> 0, scanned |-> FALSE,
     requested |-> <<>>, downloads |-> <<>>, stopped |-> FALSE]

Unused == "unused"

\* the state the caller sees between two operations
Idle ==
    /\ pc = "idle"
    /\ conf = NoConf
    /\ status = "SUCCESS"
    /\ logbook = <<>>
    /\ count = 0
    /\ idx = 0
    /\ offset = 0
    /\ tx = <<>>
    /\ log = <<>>
    /\ sunk = <<>>
    /\ progress = NoProgress
    /\ events = <<>>
    /\ hist = NoHist

\* device->iostream as an operation finds it: the bytes sc.rx the device
\* will answer with, the number sc.wleft of writes that will succeed, and
\* what the running operation wrote and tried before
Stream(sc) == [rx |-> sc.rx, tx |-> tx, wleft |-> sc.wleft, log |-> log]

\* cressi_goa_device_open: the fingerprint is cleared
Init ==
    /\ fingerprint = FpZero
    /\ Idle
    /\ rcv = Unused
    /\ dl = Unused
    /\ idr = Unused
    /\ snd = Unused
    /\ stp = Unused

\* cressi_goa_device_set_fingerprint (abstract, data, size)
SetFingerprint ==
    /\ pc = "idle"
    /\ \E size \in {0, 3, FP_SIZE} :
         LET r == SetFp(fingerprint, SubSeq(FpA, 1, size), size)
         IN /\ fingerprint' = r.fingerprint
            /\ status' = r.status
            /\ hist' = [hist EXCEPT !.op = "set_fingerprint",
                                    !.size = size]
    /\ pc' = "done"
    /\ UNCHANGED <<conf, logbook, count, idx, offset, tx, log, sunk,
                   progress, events, rcv, dl, idr, snd, stp>>

\* cressi_goa_device_foreach up to the call of cressi_goa_read_id
ForeachBegin ==
    /\ pc = "idle"
    /\ pc' = "id"
    /\ conf' \in UninitConfs
    /\ progress' = [current |-> 0, maximum |-> UINT_MAX]
    /\ events' = <<[current |-> 0, maximum |-> UINT_MAX]>>
    /\ hist' = [hist EXCEPT !.op = "foreach"]
    /\ UNCHANGED <<fingerprint, status, logbook, count, idx, offset, tx, log,
                   sunk, rcv, dl, idr, snd, stp>>

\* foreach after cressi_goa_read_id returned outcome r
Identified(r) ==
    /\ tx' = r.io.tx
    /\ log' = r.io.log
    /\ status' = r.status
    /\ conf' = r.conf
    /\ hist' = [hist EXCEPT
                  !.answered = r.status \in {"SUCCESS", "UNSUPPORTED"},
                  !.idlen = Len(r.id)]
    /\ pc' = IF r.status = "SUCCESS" THEN "logbook" ELSE "done"

\* "Read the version information"
Identify ==
    /\ pc = "id"
    /\ \E sc \in IdScenarios :
         \E r \in cressi_goa_read_id(
                      Stream(sc), conf) :
            Identified(r)
    /\ UNCHANGED <<fingerprint, logbook, count, idx, offset, sunk, progress,
                   events, rcv, dl, idr, snd, stp>>

\* "Update and emit a progress event" after the scan counted cnt dives
Scanned(t, cnt, prog) ==
    /\ logbook' = t.buffer
    /\ count' = cnt
    /\ offset' = Len(t.buffer)
    /\ progress' = prog
    /\ events' = (events \o t.emitted) \o <<prog>>
    /\ hist' = [hist EXCEPT !.scanned = TRUE]
    /\ pc' = IF cnt > 0 THEN "dive" ELSE "done"

\* a progress maximum that leaves the logbook download out
CountedDivesOnly(t, cnt) ==
    Scanned(t, cnt, [t.progress EXCEPT !.maximum = cnt * NSTEPS])

\* "Count the number of dives" on the logbook the transfer t brought
Counted(t, cnt) ==
    Scanned(t, cnt, [t.progress EXCEPT !.maximum = (cnt + 1) * NSTEPS])

\* foreach after the logbook transfer t
LogbookRead(t) ==
    /\ tx' = t.io.tx
    /\ log' = t.io.log
    /\ status' = t.status
    /\ IF t.status # "SUCCESS"
       THEN /\ pc' = "done"
            /\ progress' = t.progress
            /\ events' = events \o t.emitted
            /\ UNCHANGED <<logbook, count, offset, hist>>
       ELSE Counted(t, Scan(t.buffer, conf, fingerprint))

\* "Read the logbook data", "Count the number of dives" and the progress
\* event with the new maximum
ReadLogbook ==
    /\ pc = "logbook"
    /\ \E sc \in LogbookScenarios(conf) :
         LogbookRead(Transfer(Stream(sc),
                              conf.cmd_logbook, <<>>, TRUE, progress))
    /\ UNCHANGED <<fingerprint, conf, idx, sunk, rcv, dl, idr, snd, stp>>

\* the history after the dive at off was asked for (asked), downloaded as
\* dive and checked with verdict ok
Downloaded(asked, off, dive, ok) ==
    [hist EXCEPT !.requested = asked,
                 !.downloads = Append(hist.downloads,
                                      [offset |-> off, dive |-> dive,
                                       ok |-> ok])]

\* a callback whose return value is not looked at
CallbackIgnored(h, off, rec, continue) ==
    /\ status' = "SUCCESS"
    /\ sunk' = Append(sunk, [data |-> rec, fp |-> RecordFp(conf, rec),
                             offset |-> off])
    /\ hist' = [h EXCEPT !.stopped = ~continue]
    /\ idx' = idx + 1
    /\ pc' = IF idx + 1 < count THEN "dive" ELSE "done"

\* the callback is called with the record rec and returns continue
Callback(h, off, rec, continue) ==
    /\ status' = "SUCCESS"
    /\ sunk' = Append(sunk, [data |-> rec, fp |-> RecordFp(conf, rec),
                             offset |-> off])
    /\ hist' = [h EXCEPT !.stopped = ~continue]
    /\ idx' = idx + 1
    /\ pc' = IF continue /\ idx + 1 < count THEN "dive" ELSE "done"

\* the loop body after the header check gave verdict ok
Checked(asked, off, dive, ok) ==
    IF ~ok
    THEN /\ status' = "DATAFORMAT"
         /\ pc' = "done"
         /\ hist' = Downloaded(asked, off, dive, FALSE)
         /\ UNCHANGED <<sunk, idx>>
    ELSE \E continue \in BOOLEAN :
            Callback(Downloaded(asked, off, dive, TRUE), off,
                     Record(conf, logbook, off, dive), continue)

\* the loop body after the transfer t for the entry at off; asked is the
\* list of entries a dive command was written for
DiveRead(off, t, asked) ==
    /\ offset' = off
    /\ tx' = t.io.tx
    /\ log' = t.io.log
    /\ progress' = t.progress
    /\ events' = events \o t.emitted
    /\ IF t.status # "SUCCESS"
       THEN /\ status' = t.status
            /\ pc' = "done"
            /\ hist' = [hist EXCEPT !.requested = asked]
            /\ UNCHANGED <<sunk, idx>>
       ELSE \E ok \in HeaderOk(conf, logbook, off, t.buffer) :
               Checked(asked, off, t.buffer, ok)

\* the loop body after the transfer t for the entry at off
DiveTransferred(off, t) ==
    DiveRead(off, t, IF t.io.tx # tx THEN Append(hist.requested, off)
                                     ELSE hist.requested)

\* "Move to the start of the logbook entry" and "Read the dive data"
DiveAt(off) ==
    \E sc \in DiveScenarios(conf, logbook, off) :
       DiveTransferred(off,
           Transfer(Stream(sc),
                    CMD_DIVE, Slice(logbook, off, 2), TRUE, progress))

\* one iteration of the "Download the dives" loop
ReadDive ==
    /\ pc = "dive"
    /\ DiveAt(offset - conf.logbook_entry_len)
    /\ UNCHANGED <<fingerprint, conf, logbook, count, rcv, dl, idr, snd, stp>>

\* the exchanges the device can offer for a command without download:
\* the answer, no answer, a refused write, and answers with a wrong
\* checksum, trailer, header or length
PlainScenarios(cmd) ==
    {[rx |-> Packet(cmd, <<>>), wleft |-> NoWriteFailure],
     [rx |-> <<>>, wleft |-> NoWriteFailure],
     [rx |-> Packet(cmd, <<>>), wleft |-> 0],
     [rx |-> Flip(Packet(cmd, <<>>), 5), wleft |-> NoWriteFailure],
     [rx |-> Flip(Packet(cmd, <<>>), 7), wleft |-> NoWriteFailure],
     [rx |-> Flip(Packet(cmd, <<>>), 1), wleft |-> NoWriteFailure],
     [rx |-> <<HEADER, HEADER, HEADER, SZ_PACKET + 1>>,
      wleft |-> NoWriteFailure]}

\* the dates and times the caller sets
DateTimes ==
    {[year |-> 2024, month |-> 2, day |-> 29, hour |-> 23, minute |-> 59,
      second |-> 58],
     [year |-> 1999, month |-> 12, day |-> 31, hour |-> 0, minute |-> 0,
      second |-> 0]}

\* unsigned char new_time[7] of cressi_goa_device_timesync
NewTime(dt) ==
    <<dt.year % 256, dt.year \div 256, dt.month, dt.day, dt.hour, dt.minute,
      dt.second>>

\* an operation that is one transfer without download has ended with the
\* transfer result t; next is where the caller stands then
Transferred(op, t, next) ==
    /\ pc' = next
    /\ status' = t.status
    /\ tx' = t.io.tx
    /\ log' = t.io.log
    /\ hist' = [hist EXCEPT !.op = op]

\* cressi_goa_device_timesync (abstract, datetime)
Timesync ==
    /\ pc = "idle"
    /\ \E dt \in DateTimes, sc \in PlainScenarios(CMD_SET_TIME) :
          Transferred("timesync",
                      Transfer(Stream(sc), CMD_SET_TIME, NewTime(dt), FALSE,
                               NoProgress), "done")
    /\ UNCHANGED <<fingerprint, conf, logbook, count, idx, offset, sunk,
                   progress, events, rcv, dl, idr, snd, stp>>

\* cressi_goa_device_close (abstract): the device is not used afterwards
Close ==
    /\ pc = "idle"
    /\ \E sc \in PlainScenarios(CMD_EXIT_PCLINK) :
          Transferred("close",
                      Transfer(Stream(sc), CMD_EXIT_PCLINK, <<>>, FALSE,
                               NoProgress), "closed")
    /\ UNCHANGED <<fingerprint, conf, logbook, count, idx, offset, sunk,
                   progress, events, rcv, dl, idr, snd, stp>>

\* the operation has returned; the caller takes the result
Return ==
    /\ pc = "done"
    /\ pc' = "idle"
    /\ conf' = NoConf
    /\ status' = "SUCCESS"
    /\ logbook' = <<>>
    /\ count' = 0
    /\ idx' = 0
    /\ offset' = 0
    /\ tx' = <<>>
    /\ log' = <<>>
    /\ sunk' = <<>>
    /\ progress' = NoProgress
    /\ events' = <<>>
    /\ hist' = NoHist
    /\ UNCHANGED <<fingerprint, rcv, dl, idr, snd, stp>>

Next ==
    \/ SetFingerprint
    \/ ForeachBegin
    \/ Identify
    \/ ReadLogbook
    \/ ReadDive
    \/ Timesync
    \/ Close
    \/ Return

Spec == Init /\ [][Next]_vars

---------------------------------------------------------------------------
(* Properties of the enumeration                                           *)

\* the logbook was downloaded and scanned in the running enumeration
Loaded == pc \in {"dive", "done"} /\ hist.scanned

\* the offsets of the entries of the table, counted back from its end
EntryOffsets ==
    {Len(logbook) - k * conf.logbook_entry_len :
        k \in 1..(Len(logbook) \div conf.logbook_entry_len)}

\* the entries that lie behind the entry at o (closer to the table end)
Behind(o) == {e \in EntryOffsets : e > o}

\* the dive number of the entry at o
NumberAt(o) == logbook[o + 1] + 256 * logbook[o + 2]

\* the fingerprint bytes of the entry at o
FingerprintAt(o) ==
    [i \in 1..FP_SIZE |-> logbook[o + conf.logbook_fp_offset + i]]

\* the entry at o carries the stored fingerprint
Matching(o) == FingerprintAt(o) = fingerprint

\* the frames written to the stream that carry the dive command
DiveCommands == SelectSeq(tx, LAMBDA w : Len(w) > 5 /\ w[5] = CMD_DIVE)

\* the frames written to the stream that carry a logbook command
LogbookCommands ==
    SelectSeq(tx, LAMBDA w : Len(w) > 5
                             /\ w[5] \in {CMD_LOGBOOK, CMD_LOGBOOK_V4})

\* the k-th dive command on the stream asks for the k-th entry from the end
RequestsInOrder ==
    /\ Len(DiveCommands) = Len(hist.requested)
    /\ \A k \in 1..Len(hist.requested) :
          /\ hist.requested[k] = Len(logbook) - k * conf.logbook_entry_len
          /\ DiveCommands[k]
               = Packet(CMD_DIVE, <<logbook[hist.requested[k] + 1],
                                    logbook[hist.requested[k] + 2]>>)

\* C1: the backward scan stops at the first entry, from the table end, whose
\* six fingerprint bytes equal the stored fingerprint: the scan counts only
\* entries behind it (all of them when none of them is empty), and neither
\* that entry nor an entry closer to the table start is asked for on the
\* stream or passed to the sink.
C1_StopsAtFingerprint ==
    Loaded =>
        /\ RequestsInOrder
        /\ \A s \in 1..Len(sunk) : sunk[s].fp # fingerprint
        /\ \A o \in EntryOffsets :
              Matching(o) =>
                 /\ count <= Cardinality(Behind(o))
                 /\ (\A e \in Behind(o) : ~Matching(e) /\ NumberAt(e) # 0)
                       => count = Cardinality(Behind(o))
                 /\ \A k \in 1..Len(hist.requested) : hist.requested[k] > o
                 /\ \A s \in 1..Len(sunk) : sunk[s].offset > o

\* C1 witness: the enumeration ended after the one entry behind the entry
\* with the stored fingerprint went to the sink
C1_Witness ==
    /\ pc = "done" /\ hist.scanned
    /\ fingerprint = FpA
    /\ Cardinality(EntryOffsets) = 2
    /\ \E o \in EntryOffsets : Matching(o) /\ Cardinality(Behind(o)) = 1
    /\ count = 1
    /\ Len(sunk) = 1

\* the enumeration ran to its end with success: every transfer succeeded,
\* every header check passed and the sink never returned stop, after an
\* identification by an answer of a known length
RanToEnd ==
    /\ pc = "done" /\ hist.scanned /\ status = "SUCCESS" /\ ~hist.stopped
    /\ hist.idlen \in {9, 11}

\* C2: with an all-zero stored fingerprint, no entry with an all-zero
\* fingerprint, successful transfers, passing header checks and a sink that
\* always continues, every entry with a non-zero dive number, the one at
\* table offset 0 included, is passed to the sink exactly once.
C2_AllNonEmptyEnumerated ==
    (/\ RanToEnd
     /\ fingerprint = FpZero
     /\ Len(logbook) % conf.logbook_entry_len = 0
     /\ \A o \in EntryOffsets : FingerprintAt(o) # FpZero)
    => \A o \in EntryOffsets :
          NumberAt(o) # 0
             => Cardinality({k \in 1..Len(sunk) : sunk[k].offset = o}) = 1

\* the table of two entries of length 23 whose dive numbers are first, second
TwoEntryTable(first, second) ==
    /\ conf.version = 0
    /\ conf.logbook_entry_len = SZ_HEADER
    /\ conf.logbook_fp_offset = FP_OFFSET
    /\ Len(logbook) = 2 * SZ_HEADER
    /\ NumberAt(0) = first
    /\ NumberAt(SZ_HEADER) = second

\* the stored fingerprint is that of the entry with dive number 1, and of
\* no other entry
StoredIsFingerprintOfOne ==
    \A o \in EntryOffsets : Matching(o) <=> NumberAt(o) = 1

\* exactly the dive with the given number went to the sink, as the record of
\* the entry at off
OnlyDive(number, off) ==
    /\ DiveCommands = <<Packet(CMD_DIVE, <<number, 0>>)>>
    /\ Len(sunk) = 1
    /\ Len(hist.downloads) = 1
    /\ sunk[1].data = <<220, 220, 0, 23>>
                      \o SubSeq(logbook, off + 1, off + SZ_HEADER)
                      \o hist.downloads[1].dive

\* C3 as stated: with the table {0x0002, 0x0001} and the fingerprint of entry
\* 0x0001 stored, a successful enumeration passed exactly dive 0x0002 to the
\* sink as {0xDC,0xDC,0,23}, the entry, the raw dive.
C3_Original ==
    (RanToEnd /\ TwoEntryTable(2, 1) /\ StoredIsFingerprintOfOne)
    => OnlyDive(2, 0)

\* C3 amended: with the table {0x0002, 0x0001} (entry 0x0001 at the table end,
\* scanned first) and the fingerprint of entry 0x0001 stored, the scan counts
\* nothing: no dive is asked for, the sink is not called and the enumeration
\* returns success. With the entries in the other order (entry 0x0002 at the
\* table end) the scan counts one and a successful enumeration passed exactly
\* dive 0x0002 to the sink as {0xDC,0xDC,0,23}, the entry, the raw dive.
C3_Amended ==
    /\ (Loaded /\ TwoEntryTable(2, 1) /\ StoredIsFingerprintOfOne)
          => /\ count = 0
             /\ pc = "done" /\ status = "SUCCESS"
             /\ DiveCommands = <<>>
             /\ sunk = <<>>
    /\ (Loaded /\ TwoEntryTable(1, 2) /\ StoredIsFingerprintOfOne)
          => /\ count = 1
             /\ (pc = "done" /\ status = "SUCCESS") => OnlyDive(2, SZ_HEADER)

\* C3 witness: the enumeration of the table {0x0002, 0x0001} has returned
C3_Witness ==
    /\ RanToEnd /\ TwoEntryTable(2, 1) /\ StoredIsFingerprintOfOne
    /\ hist.idlen = 9

\* C4: when the answer to the version query has a payload length other than
\* 9 or 11, the enumeration has returned an error and no logbook command was
\* written.
C4_BadLengthFails ==
    (pc \notin {"idle", "id"} /\ hist.answered /\ hist.idlen \notin {9, 11})
    => /\ pc = "done"
       /\ status # "SUCCESS"
       /\ LogbookCommands = <<>>
       /\ Len(tx) = 1

\* the entry at off and the dive downloaded for it disagree as C9 states it
BadHeader(off, dive) ==
    IF conf.version \in 0..3
    THEN \/ Len(dive) < 18
         \/ \E i \in 0..1 : dive[i + 1] # logbook[off + i + 1]
         \/ \E i \in 0..15 :
               /\ off + 7 + i < Len(logbook)
               /\ dive[2 + i + 1] # logbook[off + 7 + i + 1]
    ELSE IF conf.version = 4
    THEN \/ \E i \in 0..1 :
               i < Len(dive) /\ dive[i + 1] # logbook[off + i + 1]
         \/ \E i \in 0..5 :
               4 + i < Len(dive) /\ dive[4 + i + 1] # logbook[off + 3 + i + 1]
    ELSE FALSE

\* C9: a downloaded dive whose header disagrees with its logbook entry (for
\* versions 0..3: shorter than 18 bytes, or bytes [0,2) or [2,18) differ from
\* the entry's [0,2) or [7,23); for version 4: bytes [0,2) or [4,10) differ
\* from the entry's [0,2) or [3,9)) makes the enumeration return DataFormat:
\* it is the last dive asked for and it is not passed to the sink.
C9_BadHeaderAborts ==
    \A k \in 1..Len(hist.downloads) :
       BadHeader(hist.downloads[k].offset, hist.downloads[k].dive)
       => /\ k = Len(hist.downloads)
          /\ ~hist.downloads[k].ok
          /\ pc = "done"
          /\ status = "DATAFORMAT"
          /\ Len(sunk) = k - 1
          /\ \A s \in 1..Len(sunk) :
                sunk[s].offset # hist.downloads[k].offset
          /\ Len(DiveCommands) = k

\* C9 witness: under version 4 the second dive came with a start date that
\* differs in its last byte, after the first dive went to the sink
C9_Witness ==
    /\ pc = "done" /\ status = "DATAFORMAT"
    /\ conf.version = 4
    /\ Len(hist.downloads) = 2
    /\ Len(hist.downloads[2].dive) >= 10
    /\ hist.downloads[2].dive[1] = logbook[hist.downloads[2].offset + 1]
    /\ BadHeader(hist.downloads[2].offset, hist.downloads[2].dive)
    /\ Len(sunk) = 1

\* C10: when the sink returns stop the enumeration returns success, and from
\* then on no frame is written to the stream and the sink is not called.
C10_StopEndsEnumeration ==
    /\ [](hist.stopped => pc = "done" /\ status = "SUCCESS")
    /\ [][hist.stopped => Len(tx') <= Len(tx) /\ Len(sunk') <= Len(sunk)]_vars

\* C10 witness: the sink returned stop while a counted dive was not yet
\* asked for
C10_Witness ==
    /\ hist.stopped
    /\ pc = "done"
    /\ idx < count

\* the command frames written to the stream, in order (an acknowledgement
\* is a write of one byte)
CommandFrames == SelectSeq(tx, LAMBDA w : Len(w) >= 8)

\* C15: in an enumeration the first command on the stream is the version
\* query 0x00 and it is the only one; the second is the logbook command,
\* 0x21 when the resolved version is 0..3 and 0x23 when it is 4; every later
\* one is a dive command 0x22 carrying the dive number of the next pending
\* entry from the table end, sent only after the logbook was downloaded, and
\* there are no more of them than pending entries.
C15_ExchangeOrder ==
    hist.op = "foreach"
       => /\ CommandFrames # <<>> => CommandFrames[1][5] = 0
          /\ \A k \in 2..Len(CommandFrames) : CommandFrames[k][5] # 0
          /\ Len(CommandFrames) >= 2
                => /\ conf.version \in 0..4
                   /\ CommandFrames[2][5]
                        = IF conf.version = 4 THEN 35 ELSE 33
          /\ Len(CommandFrames) >= 3
                => /\ hist.scanned
                   /\ Len(CommandFrames) - 2 <= count
          /\ \A k \in 3..Len(CommandFrames) :
                /\ CommandFrames[k][4] = 2
                /\ CommandFrames[k][5] = 34
                /\ CommandFrames[k][6] + 256 * CommandFrames[k][7]
                     = NumberAt(Len(logbook)
                                  - (k - 2) * conf.logbook_entry_len)

\* the k-th record passed to the sink is the four header bytes, the logbook
\* entry at offset o and the dive payload downloaded for it
RecordOf(k, o, dive) ==
    /\ Len(sunk[k].data) = 4 + conf.logbook_entry_len + Len(dive)
    /\ SubSeq(sunk[k].data, 1, 4)
         = <<220, 220, conf.version, conf.logbook_entry_len>>
    /\ SubSeq(sunk[k].data, 5, 4 + conf.logbook_entry_len)
         = SubSeq(logbook, o + 1, o + conf.logbook_entry_len)
    /\ SubSeq(sunk[k].data, 5 + conf.logbook_entry_len, Len(sunk[k].data))
         = dive

\* the fingerprint passed with the k-th record is the six bytes of the
\* record at offset 4 + fp_offset, and they are the fingerprint bytes of
\* the entry at o
FingerprintOf(k, o) ==
    /\ sunk[k].fp = SubSeq(sunk[k].data, 5 + conf.logbook_fp_offset,
                           4 + conf.logbook_fp_offset + FP_SIZE)
    /\ sunk[k].fp = FingerprintAt(o)

\* C16: every record passed to the sink is {0xDC, 0xDC, version, entry_len},
\* the whole logbook entry of the dive and the dive payload as it was
\* downloaded, 4 + entry_len + payload length bytes in all; the fingerprint
\* passed with it is the six bytes at offset 4 + fp_offset of the record,
\* which are the fingerprint bytes of that entry in the logbook.
C16_RecordLayout ==
    \A k \in 1..Len(sunk) :
       /\ k <= Len(hist.downloads)
       /\ hist.downloads[k].ok
       /\ hist.downloads[k].offset = sunk[k].offset
       /\ sunk[k].offset = Len(logbook) - k * conf.logbook_entry_len
       /\ RecordOf(k, sunk[k].offset, hist.downloads[k].dive)
       /\ FingerprintOf(k, sunk[k].offset)

\* C16 witness: two records of the 15-byte entry format were passed to the
\* sink
C16_Witness ==
    /\ Len(sunk) = 2
    /\ conf.version = 4
    /\ conf.logbook_entry_len = 15
    /\ Len(sunk[2].data) > 19

\* C17: an entry whose dive number is zero ends the backward scan: only
\* entries behind it are counted as pending, and neither that entry nor an
\* entry closer to the table start is asked for on the stream or passed to
\* the sink, whatever the fingerprints of those entries are.
C17_ZeroNumberEndsScan ==
    Loaded =>
        \A o \in EntryOffsets :
           NumberAt(o) = 0 =>
              /\ count <= Cardinality(Behind(o))
              /\ \A k \in 1..Len(hist.requested) : hist.requested[k] > o
              /\ \A k \in 1..Len(DiveCommands) :
                    DiveCommands[k][6] + 256 * DiveCommands[k][7] # 0
              /\ \A s \in 1..Len(sunk) : sunk[s].offset > o

\* C17 witness: the one entry behind an empty slot went to the sink and the
\* enumeration ended there, though the slot's fingerprint is not the stored
\* one
C17_Witness ==
    /\ pc = "done" /\ hist.scanned
    /\ Cardinality(EntryOffsets) = 2
    /\ \E o \in EntryOffsets :
          /\ NumberAt(o) = 0 /\ ~Matching(o)
          /\ Cardinality(Behind(o)) = 1
    /\ count = 1
    /\ Len(sunk) = 1

\* C21: in the header cross-validation of a downloaded dive, whatever the
\* version and the length of the payload, every dive byte compared or read
\* lies inside the payload and every logbook byte compared lies inside the
\* entry being validated; every entry offset the scan and the download loop
\* use lies with its whole entry inside the logbook.
C21_ReadsInside ==
    Loaded =>
       /\ \A k \in 1..Len(hist.downloads) :
             /\ HeaderDiveReads(conf, logbook, hist.downloads[k].offset,
                                hist.downloads[k].dive)
                  \subseteq 0..(Len(hist.downloads[k].dive) - 1)
             /\ HeaderEntryReads(conf, logbook, hist.downloads[k].offset,
                                 hist.downloads[k].dive)
                  \subseteq hist.downloads[k].offset
                               ..(hist.downloads[k].offset
                                    + conf.logbook_entry_len - 1)
       /\ \A o \in ScanOffsets(logbook, conf, fingerprint, Len(logbook))
                    \cup {hist.requested[k] : k \in 1..Len(hist.requested)} :
             /\ 0 <= o
             /\ o + conf.logbook_entry_len <= Len(logbook)

\* the progress events from the m-th on carry the maximum max, and the
\* m-th, emitted after the scan, stands at the end of the logbook download
MaximumSetAt(m, max) ==
    /\ events[m].current = 1000
    /\ \A j \in 1..Len(events) : events[j].maximum = max <=> j >= m

\* C22: in an enumeration the current value of the progress events never
\* decreases and never exceeds the maximum of its event; the maximum becomes
\* (pending count + 1) * 1000 with the event emitted after the scan, before
\* any dive is asked for, and stays; an enumeration that ends with success
\* and a sink that never stopped ends at current = maximum
\* = (pending count + 1) * 1000.
C22_ProgressEvents ==
    hist.op = "foreach" =>
       /\ \A k \in 1..Len(events) : events[k].current <= events[k].maximum
       /\ \A k \in 2..Len(events) :
             events[k - 1].current <= events[k].current
       /\ ~hist.scanned => DiveCommands = <<>>
       /\ hist.scanned
             => /\ progress.maximum = (count + 1) * 1000
                /\ \E m \in 1..Len(events) :
                      /\ MaximumSetAt(m, (count + 1) * 1000)
                      /\ DiveCommands = <<>> => m = Len(events)
       /\ (pc = "done" /\ hist.scanned /\ status = "SUCCESS"
             /\ ~hist.stopped)
             => /\ progress.current = (count + 1) * 1000
                /\ progress.maximum = (count + 1) * 1000
                /\ events[Len(events)] = progress

\* C22 witness: an enumeration of two pending dives ended with success at
\* current = maximum = 3000
C22_Witness ==
    /\ pc = "done" /\ hist.scanned /\ status = "SUCCESS" /\ ~hist.stopped
    /\ count = 2
    /\ Len(sunk) = 2
    /\ progress = [current |-> 3000, maximum |-> 3000]
    /\ events[Len(events)] = progress

---------------------------------------------------------------------------
(* Properties of the stream operations                                     *)

\* the operation has returned to its caller
Returned == pc \in {"done", "closed"}

\* the i-th stream operation was a read that brought its bytes
GoodRead(i) == log[i].op = "r" /\ log[i].ok

\* the i-th stream operation read the four leading bytes of an answer: it
\* follows the write of a command
HeaderRead(i) ==
    /\ GoodRead(i) /\ log[i].n = 4
    /\ i > 1 /\ log[i - 1].op = "w"

\* the i-th stream operation read the rest of an answer
RestRead(i) == GoodRead(i) /\ i > 1 /\ HeaderRead(i - 1)

\* the i-th stream operation read a chunk of a download
ChunkRead(i) == GoodRead(i) /\ log[i].n = SZ_DATA + 5

\* the i-th stream operation read the end byte of a download
EndRead(i) == GoodRead(i) /\ log[i].n = 1 /\ ~RestRead(i)

\* the checksum rule of an answer whose length byte is len and whose other
\* bytes after it are rest: command, payload, checksum, trailer
RestPasses(len, rest) ==
    /\ rest[Len(rest)] = 85
    /\ rest[Len(rest) - 2] + 256 * rest[Len(rest) - 1]
         = checksum_crc16_ccitt(<<len>> \o SubSeq(rest, 1, Len(rest) - 3))

\* the bytes the i-th stream operation read fail the check made on them: a
\* marker, the length, a checksum or the end byte
FailsCheck(i) ==
    \/ /\ HeaderRead(i)
       /\ \/ \E k \in 1..3 : log[i].data[k] # 170
          \/ log[i].data[4] > 12
    \/ /\ RestRead(i)
       /\ ~RestPasses(log[i - 1].data[4], log[i].data)
    \/ /\ ChunkRead(i)
       /\ log[i].data[516] + 256 * log[i].data[517]
            # CrcRange(log[i].data, 4, SZ_DATA + 3, 0)
    \/ /\ EndRead(i)
       /\ log[i].data[1] # 4

\* the i-th stream operation is of the exchange the operation made last:
\* no command was written after it (an acknowledgement is one byte, a
\* command at least eight)
InLastExchange(i) ==
    \A j \in (i + 1)..Len(log) : ~(log[j].op = "w" /\ log[j].n > 1)

\* C11: once a read or write on the stream fails, or the bytes read fail a
\* check, the operation tries nothing more on the stream and returns that
\* error: the I/O error of the stream, or Protocol for a bad marker, length,
\* checksum or end byte. An operation that returns one of the two errors
\* stopped at such a failure. (The bytes of an earlier exchange were checked
\* in the state that exchange ended in.)
C11_FailFast ==
    /\ \A i \in 1..Len(log) :
          (~log[i].ok \/ (InLastExchange(i) /\ FailsCheck(i)))
             => /\ i = Len(log)
                /\ Returned
                /\ status = IF log[i].ok THEN "PROTOCOL" ELSE "IO"
    /\ (Returned /\ status \in {"IO", "PROTOCOL"})
          => /\ log # <<>>
             /\ ~log[Len(log)].ok \/ FailsCheck(Len(log))

\* C11 witness: the second dive of an enumeration came in a chunk with a
\* wrong checksum
C11_Witness ==
    /\ pc = "done"
    /\ status = "PROTOCOL"
    /\ Len(hist.requested) = 2
    /\ ChunkRead(Len(log)) /\ FailsCheck(Len(log))

\* C12: the stored fingerprint is all zero after open and only
\* set_fingerprint changes it: no step of an enumeration, a time sync or a
\* close, whether it succeeds or fails, writes it, and a set_fingerprint with
\* a size other than 0 or 6 returns InvalidArgs and leaves it as it was; with
\* size 6 it stores the bytes given and with size 0 it stores zeros.
C12_FingerprintFrame ==
    /\ fingerprint = FpZero
    /\ [][/\ fingerprint' # fingerprint
              => /\ pc = "idle"
                 /\ hist'.op = "set_fingerprint"
                 /\ hist'.size \in {0, FP_SIZE}
          /\ (pc = "idle" /\ hist'.op = "set_fingerprint")
              => IF hist'.size \in {0, FP_SIZE}
                 THEN /\ status' = "SUCCESS"
                      /\ fingerprint' = IF hist'.size = 0 THEN FpZero ELSE FpA
                 ELSE /\ status' = "INVALIDARGS"
                      /\ fingerprint' = fingerprint]_vars

\* C12 witness: a set_fingerprint with three bytes was refused while a
\* fingerprint set earlier was stored
C12_Witness ==
    /\ pc = "done"
    /\ hist.op = "set_fingerprint"
    /\ hist.size = 3
    /\ status = "INVALIDARGS"
    /\ fingerprint = FpA

---------------------------------------------------------------------------
(* Framed receive on its own: a well-formed frame with one byte changed    *)

\* largest value a changed byte takes, besides the marker bytes and 255
MaxMutation == 13

\* a payload whose own bytes end in a checksum of the empty frame and a
\* trailer byte
Crafted(cmd) ==
    <<checksum_crc16_ccitt(<<0, cmd>>) % 256,
      checksum_crc16_ccitt(<<0, cmd>>) \div 256, TRAILER>>

\* the payloads of the frames that are received
RcvPayloads(cmd) ==
    {<<>>, <<1>>, <<1, 2, 3>>, Crafted(cmd), IdPayload(9, 1, 163),
     <<1, 2, 3, 4, 5, 6, 7, 8, 9, 10, 11, 12>>}

\* the frame position (from 0) of the length byte and of the payload bytes
MutablePositions(payload) == {3} \cup {4 + i : i \in 1..Len(payload)}

\* the inputs: a frame (cmd, payload) and the change (pos, val)
RcvInputs ==
    {[phase |-> "ready", cmd |-> c, payload |-> p, pos |-> q, val |-> v,
      status |-> "SUCCESS", output |-> <<>>] :
         c \in {CMD_VERSION, CMD_DIVE}, p \in RcvPayloads(CMD_VERSION),
         q \in 3..16, v \in (0..MaxMutation) \cup {TRAILER, HEADER, 255}}

\* the frame as the device sent it
OriginalFrame(in) == Packet(in.cmd, in.payload)

\* the frame as it arrives
MutatedFrame(in) == [OriginalFrame(in) EXCEPT ![in.pos + 1] = in.val]

\* exactly one byte of the payload or the length byte is changed
IsMutation(in) ==
    /\ in.pos \in MutablePositions(in.payload)
    /\ OriginalFrame(in)[in.pos + 1] # in.val

\* the harness state after receive returned r
Received(in, r) ==
    [in EXCEPT !.phase = "done", !.status = r.status, !.output = r.output]

InitReceive ==
    /\ fingerprint = FpZero
    /\ Idle
    /\ rcv \in {in \in RcvInputs : IsMutation(in)}
    /\ dl = Unused
    /\ idr = Unused
    /\ snd = Unused
    /\ stp = Unused

\* cressi_goa_device_receive is called on the mutated frame
ReceiveMutated ==
    /\ rcv.phase = "ready"
    /\ rcv' = Received(rcv, Receive([rx |-> MutatedFrame(rcv), tx |-> <<>>,
                                     wleft |-> NoWriteFailure,
                                     log |-> <<>>]))
    /\ UNCHANGED <<fingerprint, pc, conf, status, logbook, count, idx,
                   offset, tx, log, sunk, progress, events, hist, dl, idr,
                   snd, stp>>

NextReceive == ReceiveMutated

SpecReceive == InitReceive /\ [][NextReceive]_vars

---------------------------------------------------------------------------
(* Framed send on its own, and the frame it wrote received again           *)

\* longest payload handed to send
MaxPayload == 13

\* a payload of n bytes
SndPayload(n, seed) == [i \in 1..n |-> (seed * i + n) % 256]

\* the inputs: the command, the payload and the writes the stream accepts
SndInputs ==
    {[phase |-> "ready", cmd |-> c, data |-> SndPayload(n, seed),
      wleft |-> w, status |-> "SUCCESS", tx |-> <<>>, log |-> <<>>,
      back |-> RecvFail("SUCCESS", <<>>)] :
         c \in {CMD_VERSION, CMD_SET_TIME, CMD_DIVE}, n \in 0..MaxPayload,
         seed \in {1, 85}, w \in {0, 1}}

\* the harness state after send returned r
Sent(in, r) ==
    [in EXCEPT !.phase = "sent", !.status = r.status, !.tx = r.io.tx,
               !.log = r.io.log]

InitSend ==
    /\ fingerprint = FpZero
    /\ Idle
    /\ rcv = Unused
    /\ dl = Unused
    /\ idr = Unused
    /\ snd \in SndInputs
    /\ stp = Unused

\* cressi_goa_device_send is called on the input
SendFrame ==
    /\ snd.phase = "ready"
    /\ snd' = Sent(snd, Send([rx |-> <<>>, tx |-> <<>>, wleft |-> snd.wleft,
                              log |-> <<>>], snd.cmd, snd.data))
    /\ UNCHANGED <<fingerprint, pc, conf, status, logbook, count, idx,
                   offset, tx, log, sunk, progress, events, hist, rcv, dl,
                   idr, stp>>

\* cressi_goa_device_receive is called on the bytes send wrote
ReceiveFrame ==
    /\ snd.phase = "sent"
    /\ snd.tx # <<>>
    /\ snd' = [snd EXCEPT !.phase = "back",
                          !.back = Receive([rx |-> snd.tx[1], tx |-> <<>>,
                                            wleft |-> NoWriteFailure,
                                            log |-> <<>>])]
    /\ UNCHANGED <<fingerprint, pc, conf, status, logbook, count, idx,
                   offset, tx, log, sunk, progress, events, hist, rcv, dl,
                   idr, stp>>

NextSend == SendFrame \/ ReceiveFrame

SpecSend == InitSend /\ [][NextSend]_vars

---------------------------------------------------------------------------
(* Bulk download on its own, one loop iteration per step                   *)

\* largest number of full chunks a downloaded payload spans
MaxChunks == 2

\* the payload lengths: around every chunk boundary of the total size
DlLengths ==
    {0, 1} \cup {k * SZ_DATA - 2 + d : k \in 1..MaxChunks, d \in {-1, 0, 1}}

\* a payload of n bytes whose bytes tell their position
DlPayload(n) == [i \in 1..n |-> ((i * 7) % 251) + 1]

\* stream with the byte at index i (from 0) changed
Corrupt(stream, i) == [stream EXCEPT ![i + 1] = (stream[i + 1] + 1) % 256]

\* the streams offered for a payload of n bytes, each with its write budget
DlStreams(n) ==
    {[kind |-> "valid", rx |-> Bulk(DlPayload(n)), wleft |-> NoWriteFailure],
     [kind |-> "crc", rx |-> Corrupt(Bulk(DlPayload(n)), 10),
      wleft |-> NoWriteFailure],
     [kind |-> "lastcrc",
      rx |-> Corrupt(Bulk(DlPayload(n)), Len(Bulk(DlPayload(n))) - 2),
      wleft |-> NoWriteFailure],
     [kind |-> "end",
      rx |-> Corrupt(Bulk(DlPayload(n)), Len(Bulk(DlPayload(n))) - 1),
      wleft |-> NoWriteFailure],
     [kind |-> "short",
      rx |-> SubSeq(Bulk(DlPayload(n)), 1, Len(Bulk(DlPayload(n))) - 1),
      wleft |-> NoWriteFailure],
     [kind |-> "write", rx |-> Bulk(DlPayload(n)), wleft |-> 0],
     [kind |-> "write", rx |-> Bulk(DlPayload(n)), wleft |-> 1]}

\* the harness state: the locals of the download and what was offered
DlStart(sc, base) ==
    DlInit([rx |-> sc.rx, tx |-> <<>>, wleft |-> sc.wleft, log |-> <<>>],
           [current |-> base, maximum |-> 3 * NSTEPS])
    @@ [kind |-> sc.kind, stream |-> sc.rx]

InitDownload ==
    /\ fingerprint = FpZero
    /\ Idle
    /\ rcv = Unused
    /\ dl \in {DlStart(sc, base) :
                  sc \in UNION {DlStreams(n) : n \in DlLengths},
                  base \in {0, NSTEPS}}
    /\ idr = Unused
    /\ snd = Unused
    /\ stp = Unused

\* the download advances by one loop iteration or by its end handshake
DownloadStep ==
    /\ dl.phase = "loop"
    /\ dl' = DlStep(dl)
    /\ UNCHANGED <<fingerprint, pc, conf, status, logbook, count, idx,
                   offset, tx, log, sunk, progress, events, hist, rcv, idr,
                   snd, stp>>

NextDownload == DownloadStep

SpecDownload == InitDownload /\ [][NextDownload]_vars

---------------------------------------------------------------------------
(* The counters of the download loop on their own, over every total size   *)

\* largest size the first packet can declare: an unsigned 16 bit value
MaxDeclared == 65535

\* the first five bytes of the packet read when st.nbytes bytes were
\* received: the first packet declares the size, a later one carries data
\* that reads as another size
PacketHead(st) ==
    IF st.nbytes = 0
    THEN <<0, 0, 0, st.declared % 256, st.declared \div 256>>
    ELSE <<0, 0, 0, (st.declared + 1) % 256,
           ((st.declared + 1) \div 256) % 256>>

\* the loop body from "Append the payload to the output buffer" on, as far
\* as the counters go: what was emitted is kept in trail
StpAppend(st, size, length) ==
    [st EXCEPT !.size = size,
               !.nbytes = st.nbytes + length,
               !.trail = Append(st.trail,
                                [nbytes |-> st.nbytes + length,
                                 size |-> size,
                                 current |-> st.initial
                                               + STEP(st.nbytes + length,
                                                      size)])]

\* "Calculate the payload size of the packet"
StpLength(st, size) == StpAppend(st, size, ChunkLength(size, st.nbytes))

\* "Get the total size from the first data packet"
StpChunk(st, packet) ==
    StpLength(st, TotalSize(st.size, st.nbytes, packet))

RECURSIVE StpRun(_)
\* while (nbytes < size)
StpRun(st) ==
    IF st.nbytes < st.size THEN StpRun(StpChunk(st, PacketHead(st)))
    ELSE [st EXCEPT !.phase = "ret"]

\* the counters before the loop, for a declared size and a baseline
StpStart(declared, base) ==
    [phase |-> "loop", declared |-> declared, initial |-> base,
     size |-> 2, nbytes |-> 0, trail |-> <<>>]

InitStep ==
    /\ fingerprint = FpZero
    /\ Idle
    /\ rcv = Unused
    /\ dl = Unused
    /\ idr = Unused
    /\ snd = Unused
    /\ stp \in {StpStart(d, base) : d \in 0..MaxDeclared,
                                     base \in {0, NSTEPS}}

\* the receive loop of cressi_goa_device_download runs to its exit
RunLoop ==
    /\ stp.phase = "loop"
    /\ stp' = StpRun(stp)
    /\ UNCHANGED <<fingerprint, pc, conf, status, logbook, count, idx,
                   offset, tx, log, sunk, progress, events, hist, rcv, dl,
                   idr, snd>>

NextStep == RunLoop

SpecStep == InitStep /\ [][NextStep]_vars

---------------------------------------------------------------------------
(* Identification on its own, over models and firmware versions            *)

\* largest model number the device reports, besides 255
MaxModel == 13

\* the firmware numbers: the ends of every range and their neighbours
IdFirmwares ==
    {0, 99, 100, 105, 110, 111, 160, 161, 163, 165, 166, 169, 170, 179, 180,
     199, 200, 202, 205, 206, 899, 900, 901, 65535}

\* the inputs: the size of the answer and the two fields it carries
IdInputs ==
    {[phase |-> "ready", len |-> n, model |-> m, firmware |-> f,
      status |-> "SUCCESS", conf |-> NoConf, reads |-> {}] :
         n \in {9, 11}, m \in (0..MaxModel) \cup {255}, f \in IdFirmwares}
    \cup {[phase |-> "ready", len |-> n, model |-> 1, firmware |-> 163,
           status |-> "SUCCESS", conf |-> NoConf, reads |-> {}] :
              n \in {0, 8, 10, 12}}

\* the harness state after cressi_goa_read_id returned r: the matrix is
\* read when the size of the answer matched a row of version_conf
IdDone(in, r) ==
    [in EXCEPT !.phase = "done", !.status = r.status, !.conf = r.conf,
               !.reads = IF ConfCandidate(in.len) = 0 THEN {}
                         ELSE MatrixReads(in.model, in.firmware)]

InitId ==
    /\ fingerprint = FpZero
    /\ Idle
    /\ rcv = Unused
    /\ dl = Unused
    /\ idr \in IdInputs
    /\ snd = Unused
    /\ stp = Unused

\* cressi_goa_read_id is called; *conf holds NoConf before the call
IdentifyOnce ==
    /\ idr.phase = "ready"
    /\ \E r \in cressi_goa_read_id(
                    [rx |-> Packet(CMD_VERSION,
                                   IdPayload(idr.len, idr.model, idr.firmware)),
                     tx |-> <<>>, wleft |-> NoWriteFailure,
                     log |-> <<>>], NoConf) :
          idr' = IdDone(idr, r)
    /\ UNCHANGED <<fingerprint, pc, conf, status, logbook, count, idx,
                   offset, tx, log, sunk, progress, events, hist, rcv, dl,
                   snd, stp>>

NextId == IdentifyOnce

SpecId == InitId /\ [][NextId]_vars

---------------------------------------------------------------------------
(* Properties of the framed receive                                        *)

\* C8 as stated: a frame with one byte of the payload or the length byte
\* changed is rejected with a protocol error and no payload is returned.
C8_Original ==
    rcv.phase = "done" => rcv.status = "PROTOCOL" /\ rcv.output = <<>>

\* C8 amended: a changed payload byte, or a length byte changed to more than
\* 12, is rejected with a protocol error; a length byte raised to at most 12
\* is rejected with the read error of the stream, which ends before the
\* announced bytes; a lowered length byte is rejected with a protocol error
\* or, when the bytes of the frame at the new checksum and trailer places
\* pass both tests, yields the payload cut to the new length. No payload is
\* returned with an error, and the original payload is never returned.
C8_Amended ==
    rcv.phase = "done" =>
        /\ rcv.status # "SUCCESS" => rcv.output = <<>>
        /\ rcv.output # rcv.payload \/ rcv.status # "SUCCESS"
        /\ rcv.pos > 3 => rcv.status = "PROTOCOL"
        /\ (rcv.pos = 3 /\ rcv.val > SZ_PACKET) => rcv.status = "PROTOCOL"
        /\ (rcv.pos = 3 /\ rcv.val <= SZ_PACKET /\ rcv.val > Len(rcv.payload))
              => rcv.status = "IO"
        /\ (rcv.pos = 3 /\ rcv.val < Len(rcv.payload))
              => \/ rcv.status = "PROTOCOL"
                 \/ /\ rcv.status = "SUCCESS"
                    /\ rcv.output = SubSeq(rcv.payload, 1, rcv.val)

\* C8 witness: the last byte of a 12-byte payload was changed and the frame
\* was rejected
C8_Witness ==
    /\ rcv.phase = "done"
    /\ Len(rcv.payload) = SZ_PACKET
    /\ rcv.pos = 4 + SZ_PACKET
    /\ rcv.status = "PROTOCOL"

\* the frame with the lowered length byte that is accepted
C8_TruncatedAccepted ==
    /\ rcv.phase = "done"
    /\ rcv.pos = 3
    /\ rcv.val < Len(rcv.payload)
    /\ rcv.status = "SUCCESS"

---------------------------------------------------------------------------
(* Properties of the framed send                                           *)

\* the frame of the claim around payload data with checksum bytes lo and hi
FrameOf(cmd, data, lo, hi) ==
    <<170, 170, 170, Len(data), cmd>> \o data \o <<lo, hi, 85>>

\* C13: send refuses a payload of more than 12 bytes with InvalidArgs and
\* tries no write; for a payload of n <= 12 bytes it makes exactly one write,
\* of n + 8 bytes: three 0xAA, n, the command, the payload, two checksum
\* bytes and 0x55; receive, handed those bytes, accepts them and returns the
\* payload.
C13_SendFrames ==
    /\ snd.phase # "ready"
          => IF Len(snd.data) > 12
             THEN /\ snd.status = "INVALIDARGS"
                  /\ snd.log = <<>> /\ snd.tx = <<>>
             ELSE /\ Len(snd.log) = 1
                  /\ snd.log[1].op = "w" /\ snd.log[1].n = Len(snd.data) + 8
                  /\ snd.status = IF snd.wleft > 0 THEN "SUCCESS" ELSE "IO"
                  /\ snd.wleft > 0
                       => /\ Len(snd.tx) = 1
                          /\ Len(snd.tx[1]) = Len(snd.data) + 8
                          /\ \E lo, hi \in 0..255 :
                                snd.tx[1] = FrameOf(snd.cmd, snd.data, lo, hi)
    /\ snd.phase = "back"
          => /\ snd.back.status = "SUCCESS"
             /\ snd.back.output = snd.data

\* C13 witness: a frame with a payload of 12 bytes was sent and received
C13_Witness ==
    /\ snd.phase = "back"
    /\ Len(snd.data) = 12
    /\ snd.back.status = "SUCCESS"

---------------------------------------------------------------------------
(* Properties of the bulk download                                         *)

\* the total size the first chunk of the stream declares
DeclaredTotal == 2 + dl.stream[4] + 256 * dl.stream[5]

\* the bytes the k-th chunk (from 0) of the stream contributes
Contribution(k) ==
    LET received == k * SZ_DATA
        n == IF DeclaredTotal - received > SZ_DATA THEN SZ_DATA
             ELSE DeclaredTotal - received
    IN [i \in 1..n |-> dl.stream[k * (SZ_DATA + 5) + 3 + i]]

RECURSIVE Contributions(_)
\* the contributions of the chunks 0..(k - 1), one after the other
Contributions(k) ==
    IF k = 0 THEN <<>> ELSE Contributions(k - 1) \o Contribution(k - 1)

\* the number of chunks that carry DeclaredTotal bytes
ChunksNeeded == (DeclaredTotal + SZ_DATA - 1) \div SZ_DATA

\* C7: for a stream of valid chunks that ends with the end marker the
\* download succeeds, and its output has length T - 2 and is the
\* contributions min(512, T - received) of the chunks in order without the
\* first two bytes of the first chunk; while it runs the output is what the
\* chunks read so far contribute.
C7_Assembles ==
    dl.kind = "valid" =>
        /\ dl.chunks > 0
              => /\ Len(dl.buffer) = dl.nbytes - 2
                 /\ dl.buffer = Drop(Contributions(dl.chunks), 2)
        /\ dl.phase = "ret"
              => /\ dl.status = "SUCCESS"
                 /\ dl.chunks = ChunksNeeded
                 /\ Len(dl.buffer) = DeclaredTotal - 2
                 /\ dl.buffer = Drop(Contributions(ChunksNeeded), 2)
                 /\ dl.io.rx = <<>>

\* C7 witness: a download of three chunks, the last one carrying one byte,
\* has returned
C7_Witness ==
    /\ dl.phase = "ret"
    /\ dl.kind = "valid"
    /\ dl.status = "SUCCESS"
    /\ dl.chunks = 3
    /\ DeclaredTotal = 2 * SZ_DATA + 1

\* the stream operations of the download so far
DlLog == dl.io.log

\* the stream operation e read a chunk
IsChunk(e) == e.op = "r" /\ e.ok /\ e.n = SZ_DATA + 5

\* the stream operation e read a chunk whose checksum bytes are those of
\* its 512 data bytes
VerifiedChunk(e) ==
    /\ IsChunk(e)
    /\ e.data[SZ_DATA + 4] + 256 * e.data[SZ_DATA + 5]
         = CrcRange(e.data, 4, SZ_DATA + 3, 0)

\* the stream operation e read the end byte 0x04
VerifiedEnd(e) == e.op = "r" /\ e.ok /\ e.n = 1 /\ e.data[1] = 4

\* the stream operation e wrote, or tried to write, something
IsWrite(e) == e.op = "w"

\* the stream operation e wrote one acknowledgement byte
IsAck(e) == e.op = "w" /\ e.ok /\ e.data = <<6>>

\* C14: every write of a bulk transfer is of the one byte 0x06 and comes
\* right after the read of a chunk whose checksum was right or of the end
\* byte 0x04; a chunk with a right checksum is followed by its
\* acknowledgement before anything else is read, a chunk with a wrong
\* checksum or another end byte by nothing at all. A transfer that succeeds
\* after k chunks has written k + 1 acknowledgements, the last one after the
\* end byte.
C14_AckOrdering ==
    /\ \A j \in 1..Len(DlLog) :
          IsWrite(DlLog[j])
             => /\ DlLog[j].n = 1
                /\ DlLog[j].ok => DlLog[j].data = <<6>>
                /\ j > 1
                /\ VerifiedChunk(DlLog[j - 1]) \/ VerifiedEnd(DlLog[j - 1])
    /\ \A i \in 1..Len(DlLog) :
          /\ VerifiedChunk(DlLog[i])
                => i < Len(DlLog) /\ IsWrite(DlLog[i + 1])
          /\ (~IsWrite(DlLog[i]) /\ ~VerifiedChunk(DlLog[i])
                 /\ ~VerifiedEnd(DlLog[i]))
                => i = Len(DlLog) /\ dl.phase = "ret"
                     /\ dl.status # "SUCCESS"
    /\ (dl.phase = "ret" /\ dl.status = "SUCCESS")
          => /\ VerifiedEnd(DlLog[Len(DlLog) - 1])
             /\ IsAck(DlLog[Len(DlLog)])
             /\ Cardinality({j \in 1..Len(DlLog) : IsAck(DlLog[j])})
                  = Cardinality({i \in 1..Len(DlLog) : IsChunk(DlLog[i])}) + 1

\* C14 witness: a transfer of three chunks succeeded with four
\* acknowledgements
C14_Witness ==
    /\ dl.phase = "ret"
    /\ dl.status = "SUCCESS"
    /\ Cardinality({i \in 1..Len(DlLog) : IsChunk(DlLog[i])}) = 3
    /\ Cardinality({j \in 1..Len(DlLog) : IsAck(DlLog[j])}) = 4

---------------------------------------------------------------------------
(* Properties of the identification                                        *)

\* the version the firmware number stands for, -1 for none
ClaimedVersion(firmware) ==
    CASE firmware \in 161..165 -> 0
      [] firmware \in 166..169 -> 1
      [] firmware \in 170..179 -> 2
      [] firmware \in (100..110) \cup {900} -> 3
      [] firmware \in 200..205 -> 4
      [] OTHER -> -1

\* the support matrix flags the pair (version, model)
Flagged(version, model) ==
    /\ version \in 0..4
    /\ model \in 1..11
    /\ version_support_on_model[version][model]

\* C5: the firmware ranges give the versions 0..4; every other firmware,
\* every model above 11 and every (version, model) pair that the support
\* matrix does not flag is rejected and identification returns Unsupported.
C5_VersionResolution ==
    (idr.phase = "done" /\ idr.len \in {9, 11}) =>
        IF Flagged(ClaimedVersion(idr.firmware), idr.model)
        THEN /\ idr.status = "SUCCESS"
             /\ idr.conf.version = ClaimedVersion(idr.firmware)
        ELSE idr.status = "UNSUPPORTED"

\* C6: after a successful identification a 9-byte answer gave a version in
\* 0..3 with entry length 23, fingerprint offset 0x11 and logbook command
\* 0x21, and an 11-byte answer gave version 4 with entry length 15,
\* fingerprint offset 3 and logbook command 0x23.
C6_ConfMatchesLength ==
    (idr.phase = "done" /\ idr.status = "SUCCESS" /\ idr.len \in {9, 11}) =>
        /\ idr.len = 9
              => /\ idr.conf.version \in 0..3
                 /\ idr.conf.logbook_entry_len = 23
                 /\ idr.conf.logbook_fp_offset = 17
                 /\ idr.conf.cmd_logbook = 33
        /\ idr.len = 11
              => /\ idr.conf.version = 4
                 /\ idr.conf.logbook_entry_len = 15
                 /\ idr.conf.logbook_fp_offset = 3
                 /\ idr.conf.cmd_logbook = 35

\* C20: for every answer whose length is 9 or 11, whatever model byte and
\* firmware it carries, the support matrix is read only at a version index
\* in 0..4 and a model index (model - 1) in 0..10: no answer, one with model
\* byte 0 included, makes the lookup leave the 5 x 11 matrix.
C20_LookupInsideMatrix ==
    (idr.phase = "done" /\ idr.len \in {9, 11})
       => \A rd \in idr.reads : rd[1] \in 0..4 /\ rd[2] \in 0..10

---------------------------------------------------------------------------
(* Properties of the counters of the download loop                         *)

\* what the k-th progress event adds to the baseline
Gained(k) == stp.trail[k].current - stp.initial

\* 1000 * received / total of the k-th chunk, rounded to the nearest integer,
\* is q
RoundsTo(k, q) ==
    /\ 2 * stp.trail[k].size * q
         <= 2 * 1000 * stp.trail[k].nbytes + stp.trail[k].size
    /\ 2 * 1000 * stp.trail[k].nbytes + stp.trail[k].size
         < 2 * stp.trail[k].size * (q + 1)

\* 1000 * received / total of the k-th chunk, rounded down, is q
TruncatesTo(k, q) ==
    /\ stp.trail[k].size * q <= 1000 * stp.trail[k].nbytes
    /\ 1000 * stp.trail[k].nbytes < stp.trail[k].size * (q + 1)

\* C18 as stated: after every chunk the progress value is the baseline plus
\* 1000 * received / total rounded to the nearest integer.
C18_Original ==
    \A k \in 1..Len(stp.trail) : RoundsTo(k, Gained(k))

\* C18: for every total size T in 2..65537, after every chunk the progress
\* value is the baseline plus 1000 * received / T rounded down, the product
\* 1000 * received fits 32 bits unsigned, and after the last chunk the value
\* is the baseline plus exactly 1000.
C18_Amended ==
    /\ stp.size \in 2..65537
    /\ \A k \in 1..Len(stp.trail) :
          /\ TruncatesTo(k, Gained(k))
          /\ stp.trail[k].nbytes <= 4294967
    /\ stp.phase = "ret"
          => /\ stp.trail # <<>>
             /\ Gained(Len(stp.trail)) = 1000

\* C18 witness: the largest total size was received in 129 chunks from a
\* baseline of 1000, the first of them at a value that rounding would raise
C18_Witness ==
    /\ stp.phase = "ret"
    /\ stp.size = 65537
    /\ stp.initial = 1000
    /\ Len(stp.trail) = 129
    /\ stp.trail[129].current = 2000
    /\ ~RoundsTo(1, Gained(1))

\* the number of chunks a total size needs
ChunksFor(size) == (size + SZ_DATA - 1) \div SZ_DATA

\* C19: whatever size the first chunk declares, the receive loop ends: with
\* T = 2 + the declared size it reads at least one and at most ceil(T / 512)
\* chunks, 129 at most; the count of received bytes grows with every chunk,
\* never passes T and reaches T with the chunk the loop exits after; the
\* chunks after the first leave T as it was.
C19_LoopTerminates ==
    stp.phase = "ret"
       => /\ Len(stp.trail) >= 1
          /\ Len(stp.trail) <= ChunksFor(2 + stp.declared)
          /\ Len(stp.trail) <= 129
          /\ stp.trail[1].nbytes > 0
          /\ \A k \in 2..Len(stp.trail) :
                stp.trail[k].nbytes > stp.trail[k - 1].nbytes
          /\ \A k \in 1..Len(stp.trail) :
                /\ stp.trail[k].size = 2 + stp.declared
                /\ stp.trail[k].nbytes <= 2 + stp.declared
                /\ stp.trail[k].nbytes = 2 + stp.declared
                     <=> k = Len(stp.trail)
          /\ stp.nbytes = 2 + stp.declared
          /\ stp.size = 2 + stp.declared

\* C19 witness: the loop ended after 129 chunks with 65537 bytes received
C19_Witness ==
    /\ stp.phase = "ret"
    /\ stp.declared = 65535
    /\ Len(stp.trail) = 129
    /\ stp.nbytes = 65537

===========================================================================
